---- MODULE Spec2Model ----
(***************************************************************************)
(* Socaio: the client session of pages/index.js (Home) and the two API     *)
(* handlers /api/auto-select and /api/generate-report.                     *)
(*                                                                         *)
(* A JS string the code inspects character by character (the query, which  *)
(* is trimmed; a category value, which is spread) is a sequence of         *)
(* one-character strings.  Strings the code only stores, compares or       *)
(* forwards (labels, messages, report markup, completion text) are TLA+    *)
(* strings.                                                                *)
(***************************************************************************)
EXTENDS Integers, Sequences, FiniteSets

VARIABLES
    currentQuery,              \* useState('')
    selectedCharacteristics,   \* useState(new Set())
    showChat,                  \* useState(false)
    showCharacteristics,       \* useState(false)
    showReport,                \* useState(false)
    messages,                  \* useState([])
    reportContent,             \* useState('')
    isLoading,                 \* useState(false)
    calls,                     \* the fetch() calls of the session that have not settled yet, oldest first
    apiKey,                    \* process.env.OPENAI_API_KEY of the deployment ("" when not set)
    htmlContent,               \* build.js: the text of chat/index.html
    processedContent,          \* build.js: the text after replace()
    distDir,                   \* whether the directory dist exists
    distIndex,                 \* the file dist/index.html
    buildPc,                   \* build.js: the statement it is at
    exitCode                   \* build.js: the exit code of the process, -1 while it runs

buildVars == <<htmlContent, processedContent, distDir, distIndex, buildPc, exitCode>>

vars == <<currentQuery, selectedCharacteristics, showChat, showCharacteristics,
          showReport, messages, reportContent, isLoading, calls, apiKey, buildVars>>

uiVars == <<currentQuery, selectedCharacteristics, showChat, showCharacteristics,
            showReport, messages, reportContent, isLoading>>

----
\* Bounds of the model

\* fetch() calls of one session that may be outstanding at the same time
MaxInFlight == 2

\* texts the user may put into the query input
Queries == { <<>>, <<" ">>, <<" ", "b", " ">> }

\* the characteristic items the user clicks on
ToggleLabels == {"technology"}

\* values of OPENAI_API_KEY in a deployment
Keys == {"", "sk-A"}

\* pieces of text in chat/index.html
MaxTemplateLen == 3

----
\* The taxonomy

\* pages/index.js: the options rendered as toggleable items
characteristics ==
    [ ages |-> <<"18-", "18-24", "24-30", "30-36", "36-42", "42-48", "48-54",
                 "54-60", "60-66", "66-72", "72+">>,
      genders |-> <<"male", "female", "non-binary">>,
      personality |-> <<"analytical", "empathetic", "adventurous", "conscientious",
                        "spontaneous", "pragmatic", "idealistic", "assertive",
                        "diplomatic", "introspective">>,
      interests |-> <<"technology", "music", "visual arts", "sports", "literature",
                      "finance", "gaming", "travel", "culinary", "environment">> ]

\* a mutation of fixedOptions: a gender option and an interest option are renamed
fixedOptionsDrifted ==
    [ ages |-> <<"18-", "18-24", "24-30", "30-36", "36-42", "42-48", "48-54",
                 "54-60", "60-66", "66-72", "72+">>,
      genders |-> <<"male", "female", "other">>,
      personality_traits |-> <<"analytical", "empathetic", "adventurous",
                               "conscientious", "spontaneous", "pragmatic",
                               "idealistic", "assertive", "diplomatic",
                               "introspective">>,
      interests |-> <<"tech", "music", "visual arts", "sports", "literature",
                      "finance", "gaming", "travel", "culinary", "environment">> ]

\* api/auto-select.js: the options embedded in the prompt
fixedOptions ==
    [ ages |-> <<"18-", "18-24", "24-30", "30-36", "36-42", "42-48", "48-54",
                 "54-60", "60-66", "66-72", "72+">>,
      genders |-> <<"male", "female", "non-binary">>,
      personality_traits |-> <<"analytical", "empathetic", "adventurous",
                               "conscientious", "spontaneous", "pragmatic",
                               "idealistic", "assertive", "diplomatic",
                               "introspective">>,
      interests |-> <<"technology", "music", "visual arts", "sports", "literature",
                      "finance", "gaming", "travel", "culinary", "environment">> ]

Range(s) == { s[i] : i \in 1..Len(s) }

Categories == {"ages", "genders", "personality_traits", "interests"}

\* every label the presentation layer offers
TaxonomyLabels ==
    Range(characteristics.ages) \cup Range(characteristics.genders)
        \cup Range(characteristics.personality) \cup Range(characteristics.interests)

----
\* JavaScript and JSON values

\* a JS value held in a string-typed slot: a string or undefined
Str(s) == [type |-> "string", text |-> s]
Undefined == [type |-> "undefined", text |-> ""]

\* a property value of a JSON object: kind "absent" is a missing key (undefined)
Absent == [kind |-> "absent", items |-> <<>>, num |-> 0]
JArray(items) == [kind |-> "array", items |-> items, num |-> 0]
JString(chars) == [kind |-> "string", items |-> chars, num |-> 0]
JNumber(n) == [kind |-> "number", items |-> <<>>, num |-> n]

\* a JSON document: kind "none" is an empty body
JDoc(kind, a, g, p, i, extra, error, report) ==
    [ kind |-> kind, ages |-> a, genders |-> g, personality_traits |-> p,
      interests |-> i, extra |-> extra, error |-> error, report |-> report ]

JPrimitive(kind) == JDoc(kind, Absent, Absent, Absent, Absent, FALSE, Undefined, Undefined)
JSelections(a, g, p, i, extra) == JDoc("object", a, g, p, i, extra, Undefined, Undefined)
JError(msg) == JDoc("object", Absent, Absent, Absent, Absent, FALSE, Str(msg), Undefined)
JReport(r) == JDoc("object", Absent, Absent, Absent, Absent, FALSE, Undefined, r)
NoBody == JPrimitive("none")

----
\* Completion texts of the upstream model and JSON.parse

TextFull == "{\"ages\":[\"24-30\"],\"genders\":[\"male\"],\"personality_traits\":[\"analytical\"],\"interests\":[\"technology\"]}"
TextUnknownLabel == "{\"ages\":[\"24-30\"],\"genders\":[\"male\"],\"personality_traits\":[\"analytical\"],\"interests\":[\"crypto\"]}"
TextMissingKey == "{\"ages\":[\"24-30\"],\"genders\":[\"male\"],\"interests\":[\"technology\"]}"
TextStringCategory == "{\"ages\":\"72+\",\"genders\":[\"male\"],\"personality_traits\":[],\"interests\":[\"technology\"]}"
TextNumberCategory == "{\"ages\":[\"24-30\"],\"genders\":7,\"personality_traits\":[],\"interests\":[\"technology\"]}"
TextExtraField == "{\"ages\":[\"24-30\"],\"genders\":[\"male\"],\"personality_traits\":[\"analytical\"],\"interests\":[\"technology\"],\"confidence\":0.9}"
TextNull == "null"
TextNumber == "42"
TextArray == "[\"male\",\"technology\"]"
TextEmpty == ""
TextTruncated == "{\"ages\":[\"24-30\"],\"genders\":[\"ma"

\* completion texts the upstream model may answer a selector prompt with
SelectorTexts ==
    { TextFull, TextUnknownLabel, TextMissingKey, TextStringCategory, TextNumberCategory,
      TextExtraField, TextNull, TextNumber, TextArray, TextEmpty,
      TextTruncated }

\* completion texts the upstream model may answer a report prompt with
ReportTexts == { "", "<h4>Overall emotional reaction</h4><p>mixed</p>" }

\* String(content): what JSON.parse sees of its argument
StringOf(v) ==
    CASE v.type = "string" -> v.text
      [] v.type = "null" -> "null"
      [] v.type = "undefined" -> "undefined"

Parsed(value) == [ok |-> TRUE, value |-> value]
SyntaxError == [ok |-> FALSE, value |-> NoBody]

\* JSON.parse(text) on the texts above: the value, or a SyntaxError
JSONParse(v) ==
    LET text == StringOf(v) IN
    CASE text = TextFull ->
            Parsed(JSelections(JArray(<<"24-30">>), JArray(<<"male">>),
                               JArray(<<"analytical">>), JArray(<<"technology">>), FALSE))
      [] text = TextUnknownLabel ->
            Parsed(JSelections(JArray(<<"24-30">>), JArray(<<"male">>),
                               JArray(<<"analytical">>), JArray(<<"crypto">>), FALSE))
      [] text = TextMissingKey ->
            Parsed(JSelections(JArray(<<"24-30">>), JArray(<<"male">>),
                               Absent, JArray(<<"technology">>), FALSE))
      [] text = TextStringCategory ->
            Parsed(JSelections(JString(<<"7", "2", "+">>), JArray(<<"male">>),
                               JArray(<<>>), JArray(<<"technology">>), FALSE))
      [] text = TextNumberCategory ->
            Parsed(JSelections(JArray(<<"24-30">>), JNumber(7),
                               JArray(<<>>), JArray(<<"technology">>), FALSE))
      [] text = TextExtraField ->
            Parsed(JSelections(JArray(<<"24-30">>), JArray(<<"male">>),
                               JArray(<<"analytical">>), JArray(<<"technology">>), TRUE))
      [] text = TextNull -> Parsed(JPrimitive("null"))
      [] text = TextNumber -> Parsed(JPrimitive("number"))
      [] text = TextArray -> Parsed(JPrimitive("array"))
      [] OTHER -> SyntaxError

----
\* HTTP

\* a string-valued body field: undefined when the key is missing
QStr(chars) == [type |-> "string", chars |-> chars]
QUndefined == [type |-> "undefined", chars |-> <<>>]

\* an array-valued body field; QNotArray is a non-empty string sent in its place
QArray(items) == [type |-> "array", items |-> items]
QNoArray == [type |-> "undefined", items |-> {}]
QNotArray == [type |-> "string", items |-> {}]

Request(method, newsContent, selectedTraits) ==
    [method |-> method, newsContent |-> newsContent, selectedTraits |-> selectedTraits]

\* !x for a body field
Falsy(x) ==
    \/ x.type = "undefined"
    \/ x.type = "string" /\ x.chars = <<>>

\* what the upstream chat-completion endpoint does with one call
NoUpstream == [kind |-> "none", status |-> 0, choices |-> <<>>]
TransportFailure == [kind |-> "transport", status |-> 0, choices |-> <<>>]
UpstreamStatus(status) == [kind |-> "response", status |-> status, choices |-> <<>>]
UpstreamChoices(choices) == [kind |-> "response", status |-> 200, choices |-> choices]

\* response.ok
Ok(status) == status >= 200 /\ status <= 299

\* an exception value: its constructor, its message, and the status it quotes
Thrown(name, message, status) == [name |-> name, message |-> message, status |-> status]
NoError == Thrown("", "", 0)

\* what the try block of a handler throws on a failed upstream call: fetch() rejects,
\* `throw new Error(...)` on !response.ok, or data.choices[0] is undefined
UpstreamError(up) ==
    IF up.kind = "transport" THEN Thrown("TypeError", "fetch failed", 0)
    ELSE IF ~Ok(up.status) THEN Thrown("Error", "OpenAI API error: ${response.status}", up.status)
    ELSE Thrown("TypeError", "Cannot read properties of undefined (reading 'message')", 0)

\* selectedTraits.join(', ') on a value that is no array
JoinError == Thrown("TypeError", "selectedTraits.join is not a function", 0)

\* a response as sent: res.setHeader(...), res.status(...).json(...); `logged` is the
\* exception the outer catch passed to console.error, upstreamCalls the fetches made
Response(status, body, calls_) ==
    [ status |-> status, body |-> body, allowOrigin |-> "*", upstreamCalls |-> calls_,
      logged |-> NoError ]

\* the response of the outer catch block
Failure(body, calls_, error) == [Response(500, body, calls_) EXCEPT !.logged = error]

NoResponse ==
    [ status |-> 0, body |-> NoBody, allowOrigin |-> "", upstreamCalls |-> 0,
      logged |-> NoError ]

\* api/auto-select.js: the selections sent when JSON.parse throws
FallbackSelections ==
    JSelections(JArray(<<"24-30", "30-36">>), JArray(<<"male", "female">>),
                JArray(<<"analytical", "pragmatic">>), JArray(<<"technology">>), FALSE)

\* a mutation of AutoSelectHandler: the fetch is not inside a try, so a failure of the
\* upstream call escapes and the handler sends nothing
AutoSelectHandlerNoCatch(req, key, up) ==
    IF req.method = "OPTIONS" THEN Response(200, NoBody, 0)
    ELSE IF req.method # "POST" THEN Response(405, JError("Method not allowed"), 0)
    ELSE IF Falsy(req.newsContent) THEN Response(400, JError("News content is required"), 0)
    ELSE IF key = "" THEN Response(500, JError("OpenAI API key not configured"), 0)
    ELSE IF up.kind = "transport" \/ ~Ok(up.status) \/ Len(up.choices) = 0
         THEN NoResponse
    ELSE LET selections == JSONParse(up.choices[1]) IN
         IF selections.ok THEN Response(200, selections.value, 1)
         ELSE Response(200, FallbackSelections, 1)

\* a mutation of AutoSelectHandler: the CORS headers are set after the method checks
AutoSelectHandlerLateCors(req, key, up) ==
    IF req.method = "OPTIONS" THEN [Response(200, NoBody, 0) EXCEPT !.allowOrigin = ""]
    ELSE IF req.method # "POST"
         THEN [Response(405, JError("Method not allowed"), 0) EXCEPT !.allowOrigin = ""]
    ELSE IF Falsy(req.newsContent) THEN Response(400, JError("News content is required"), 0)
    ELSE IF key = "" THEN Response(500, JError("OpenAI API key not configured"), 0)
    ELSE IF up.kind = "transport" \/ ~Ok(up.status) \/ Len(up.choices) = 0
         THEN Failure(JError("Failed to analyze content"), 1, UpstreamError(up))
    ELSE LET selections == JSONParse(up.choices[1]) IN
         IF selections.ok THEN Response(200, selections.value, 1)
         ELSE Response(200, FallbackSelections, 1)

\* a mutation of AutoSelectHandler: the error of a failed upstream call names the
\* credential it was made with
AutoSelectHandlerEchoesKey(req, key, up) ==
    IF req.method = "OPTIONS" THEN Response(200, NoBody, 0)
    ELSE IF req.method # "POST" THEN Response(405, JError("Method not allowed"), 0)
    ELSE IF Falsy(req.newsContent) THEN Response(400, JError("News content is required"), 0)
    ELSE IF key = "" THEN Response(500, JError("OpenAI API key not configured"), 0)
    ELSE IF up.kind = "transport" \/ ~Ok(up.status) \/ Len(up.choices) = 0
         THEN Failure(JError(key), 1, UpstreamError(up))
    ELSE LET selections == JSONParse(up.choices[1]) IN
         IF selections.ok THEN Response(200, selections.value, 1)
         ELSE Response(200, FallbackSelections, 1)

\* a mutation of AutoSelectHandler: the method is not checked
AutoSelectHandlerAnyMethod(req, key, up) ==
    IF req.method = "OPTIONS" THEN Response(200, NoBody, 0)
    ELSE IF Falsy(req.newsContent) THEN Response(400, JError("News content is required"), 0)
    ELSE IF key = "" THEN Response(500, JError("OpenAI API key not configured"), 0)
    ELSE IF up.kind = "transport" \/ ~Ok(up.status) \/ Len(up.choices) = 0
         THEN Failure(JError("Failed to analyze content"), 1, UpstreamError(up))
    ELSE LET selections == JSONParse(up.choices[1]) IN
         IF selections.ok THEN Response(200, selections.value, 1)
         ELSE Response(200, FallbackSelections, 1)

\* api/auto-select.js: handler(req, res), with `up` the outcome of its fetch
AutoSelectHandler(req, key, up) ==
    IF req.method = "OPTIONS" THEN Response(200, NoBody, 0)
    ELSE IF req.method # "POST" THEN Response(405, JError("Method not allowed"), 0)
    ELSE IF Falsy(req.newsContent) THEN Response(400, JError("News content is required"), 0)
    ELSE IF key = "" THEN Response(500, JError("OpenAI API key not configured"), 0)
    ELSE IF up.kind = "transport" \/ ~Ok(up.status) \/ Len(up.choices) = 0
         THEN Failure(JError("Failed to analyze content"), 1, UpstreamError(up))
    ELSE LET selections == JSONParse(up.choices[1]) IN
         IF selections.ok THEN Response(200, selections.value, 1)
         ELSE Response(200, FallbackSelections, 1)

\* a mutation of GenerateReportHandler: the credential is checked before the fields
GenerateReportHandlerKeyFirst(req, key, up) ==
    IF req.method = "OPTIONS" THEN Response(200, NoBody, 0)
    ELSE IF req.method # "POST" THEN Response(405, JError("Method not allowed"), 0)
    ELSE IF key = "" THEN Response(500, JError("OpenAI API key not configured"), 0)
    ELSE IF Falsy(req.newsContent) \/ req.selectedTraits.type = "undefined"
         THEN Response(400, JError("News content and selected traits are required"), 0)
    ELSE IF req.selectedTraits.type # "array"
         THEN Failure(JError("Failed to generate analysis report"), 0, JoinError)
    ELSE IF up.kind = "transport" \/ ~Ok(up.status) \/ Len(up.choices) = 0
         THEN Failure(JError("Failed to generate analysis report"), 1, UpstreamError(up))
    ELSE Response(200, JReport(up.choices[1]), 1)

\* a mutation of GenerateReportHandler: the credential is not checked
GenerateReportHandlerNoKeyCheck(req, key, up) ==
    IF req.method = "OPTIONS" THEN Response(200, NoBody, 0)
    ELSE IF req.method # "POST" THEN Response(405, JError("Method not allowed"), 0)
    ELSE IF Falsy(req.newsContent) \/ req.selectedTraits.type = "undefined"
         THEN Response(400, JError("News content and selected traits are required"), 0)
    ELSE IF req.selectedTraits.type # "array"
         THEN Failure(JError("Failed to generate analysis report"), 0, JoinError)
    ELSE IF up.kind = "transport" \/ ~Ok(up.status) \/ Len(up.choices) = 0
         THEN Failure(JError("Failed to generate analysis report"), 1, UpstreamError(up))
    ELSE Response(200, JReport(up.choices[1]), 1)

\* a mutation of GenerateReportHandler: traits outside the taxonomy are refused
GenerateReportHandlerStrictTraits(req, key, up) ==
    IF req.method = "OPTIONS" THEN Response(200, NoBody, 0)
    ELSE IF req.method # "POST" THEN Response(405, JError("Method not allowed"), 0)
    ELSE IF Falsy(req.newsContent) \/ req.selectedTraits.type = "undefined"
            \/ ~(req.selectedTraits.items \subseteq TaxonomyLabels)
         THEN Response(400, JError("News content and selected traits are required"), 0)
    ELSE IF key = "" THEN Response(500, JError("OpenAI API key not configured"), 0)
    ELSE IF req.selectedTraits.type # "array"
         THEN Failure(JError("Failed to generate analysis report"), 0, JoinError)
    ELSE IF up.kind = "transport" \/ ~Ok(up.status) \/ Len(up.choices) = 0
         THEN Failure(JError("Failed to generate analysis report"), 1, UpstreamError(up))
    ELSE Response(200, JReport(up.choices[1]), 1)

\* api/generate-report.js: handler(req, res), with `up` the outcome of its fetch;
\* selectedTraits.join throws inside the try, before the fetch, when it is no array
GenerateReportHandler(req, key, up) ==
    IF req.method = "OPTIONS" THEN Response(200, NoBody, 0)
    ELSE IF req.method # "POST" THEN Response(405, JError("Method not allowed"), 0)
    ELSE IF Falsy(req.newsContent) \/ req.selectedTraits.type = "undefined"
         THEN Response(400, JError("News content and selected traits are required"), 0)
    ELSE IF key = "" THEN Response(500, JError("OpenAI API key not configured"), 0)
    ELSE IF req.selectedTraits.type # "array"
         THEN Failure(JError("Failed to generate analysis report"), 0, JoinError)
    ELSE IF up.kind = "transport" \/ ~Ok(up.status) \/ Len(up.choices) = 0
         THEN Failure(JError("Failed to generate analysis report"), 1, UpstreamError(up))
    ELSE Response(200, JReport(up.choices[1]), 1)

----
\* The client session (pages/index.js, Home)

IsSpace(c) == c = " "

RECURSIVE TrimStart(_)
TrimStart(s) == IF s # <<>> /\ IsSpace(Head(s)) THEN TrimStart(Tail(s)) ELSE s

RECURSIVE TrimEnd(_)
TrimEnd(s) ==
    IF s # <<>> /\ IsSpace(s[Len(s)]) THEN TrimEnd(SubSeq(s, 1, Len(s) - 1)) ELSE s

\* String.prototype.trim
Trim(s) == TrimEnd(TrimStart(s))

AnalyzingMessage == "Analyzing your content to identify the most relevant audience characteristics..."
AnalyzedMessage == "I've analyzed your content and auto-selected the most relevant audience characteristics (marked in green). You can modify these selections and click 'Generate Analysis Report' when ready."
UnavailableMessage == "Please select the audience characteristics you'd like to focus on and click 'Generate Analysis Report'. AI auto-selection is currently unavailable."

UserMessage(query) == [sender |-> "user", content |-> query]
AssistantMessage(text) == [sender |-> "assistant", content |-> text]

\* addMessage(sender, content), as the state updater it queues
addMessage(prev, message) == Append(prev, message)

\* updateLastMessage(content), as the state updater it queues
updateLastMessage(prev, content) ==
    IF Len(prev) > 0 /\ prev[Len(prev)].sender = "assistant"
    THEN [prev EXCEPT ![Len(prev)].content = content]
    ELSE prev

\* fallbackReport()
fallbackReport ==
    "<h4>Overall Analysis</h4><p>This content would likely resonate with the selected demographic based on their characteristics.</p><h4>Engagement Patterns</h4>...<p><em>Note: Full AI analysis temporarily unavailable. Using general recommendations.</em></p>"

\* a mutation of OrEmpty: the default is missing
OrEmptyNoDefault(x) == x

\* x || []
OrEmpty(x) ==
    IF \/ x.kind \in {"absent", "null"}
       \/ x.kind = "string" /\ x.items = <<>>
       \/ x.kind = "number" /\ x.num = 0
    THEN JArray(<<>>)
    ELSE x

\* ...x inside an array literal: the elements of an array, the characters of a
\* string, a TypeError for anything that is not iterable
Spread(x) ==
    IF x.kind \in {"array", "string"}
    THEN [threw |-> FALSE, items |-> x.items]
    ELSE [threw |-> TRUE, items |-> <<>>]

\* autoSelections.<key>: a TypeError on null, undefined on the other primitives
Property(doc, key) ==
    IF doc.kind \in {"null", "none"} THEN [threw |-> TRUE, value |-> Absent]
    ELSE IF doc.kind # "object" THEN [threw |-> FALSE, value |-> Absent]
    ELSE [threw |-> FALSE,
          value |-> CASE key = "ages" -> doc.ages
                      [] key = "genders" -> doc.genders
                      [] key = "personality_traits" -> doc.personality_traits
                      [] key = "interests" -> doc.interests]

\* ...(autoSelections.<key> || [])
SpreadOf(doc, key) ==
    LET prop == Property(doc, key) IN
    IF prop.threw THEN [threw |-> TRUE, items |-> <<>>] ELSE Spread(OrEmpty(prop.value))

\* applyAutoSelections(autoSelections): the Set it stores, or the TypeError it throws
\* before storing anything
applyAutoSelections(autoSelections) ==
    LET a == SpreadOf(autoSelections, "ages")
        g == SpreadOf(autoSelections, "genders")
        p == SpreadOf(autoSelections, "personality_traits")
        i == SpreadOf(autoSelections, "interests")
    IN  IF a.threw \/ g.threw \/ p.threw \/ i.threw
        THEN [threw |-> TRUE, selection |-> {}]
        ELSE [threw |-> FALSE,
              selection |-> Range(a.items) \cup Range(g.items)
                               \cup Range(p.items) \cup Range(i.items)]

\* a fetch() of the session that has not settled
Call(kind, request) ==
    [ kind |-> kind, request |-> request, stage |-> "sent",
      upstream |-> NoUpstream, res |-> NoResponse ]

RemoveAt(s, i) == SubSeq(s, 1, i - 1) \o SubSeq(s, i + 1, Len(s))

\* build.js: the placeholder of the template, and a piece of other text
Placeholder == "{{OPENAI_API_KEY}}"
Markup == "<script>"

\* the texts chat/index.html may hold, as sequences of pieces
TemplatesOfLen(n) == [1..n -> {Markup, Placeholder}]
Templates == UNION { TemplatesOfLen(n) : n \in 0..MaxTemplateLen }

\* a file: its text, when it exists
File(content) == [exists |-> TRUE, content |-> content]
NoFile == [exists |-> FALSE, content |-> <<>>]

\* String.prototype.replace(pattern, replacement) with a string pattern: the first
\* occurrence only
RECURSIVE Replace(_, _, _)
Replace(text, pattern, replacement) ==
    IF text = <<>> THEN <<>>
    ELSE IF Head(text) = pattern THEN <<replacement>> \o Tail(text)
    ELSE <<Head(text)>> \o Replace(Tail(text), pattern, replacement)

\* the session and the endpoints run without the build script
BuildNotRun ==
    /\ htmlContent = <<>>
    /\ processedContent = <<>>
    /\ distDir = FALSE
    /\ distIndex = NoFile
    /\ buildPc = "idle"
    /\ exitCode = -1

\* The page runs on one event loop: the continuation of a settled fetch() is a
\* promise reaction, which runs to its end before the settlement of another fetch()
\* is delivered and before the next UI event is handled.
NoneSettled == \A j \in 1..Len(calls) : calls[j].stage = "sent"

Init ==
    /\ currentQuery = <<>>
    /\ selectedCharacteristics = {}
    /\ showChat = FALSE
    /\ showCharacteristics = FALSE
    /\ showReport = FALSE
    /\ messages = <<>>
    /\ reportContent = Str("")
    /\ isLoading = FALSE
    /\ calls = <<>>
    /\ apiKey \in Keys
    /\ BuildNotRun

\* the query input's onChange: setCurrentQuery(e.target.value)
SetCurrentQuery(value) ==
    /\ NoneSettled
    /\ ~showChat
    /\ currentQuery' = value
    /\ UNCHANGED <<selectedCharacteristics, showChat, showCharacteristics, showReport,
                   messages, reportContent, isLoading, calls, apiKey, buildVars>>

\* a mutation of handleQuerySubmit: the query is checked without trim()
handleQuerySubmitNoTrim ==
    IF currentQuery = <<>>
    THEN UNCHANGED vars
    ELSE /\ Len(calls) < MaxInFlight
         /\ isLoading' = TRUE
         /\ selectedCharacteristics' = {}
         /\ showChat' = TRUE
         /\ showCharacteristics' = TRUE
         /\ showReport' = FALSE
         /\ messages' = addMessage(addMessage(<<>>, UserMessage(currentQuery)),
                                   AssistantMessage(AnalyzingMessage))
         /\ calls' = Append(calls, Call("auto-select",
                                        Request("POST", QStr(currentQuery), QNoArray)))
         /\ UNCHANGED <<currentQuery, reportContent, apiKey, buildVars>>

\* handleQuerySubmit, up to its await
handleQuerySubmit ==
    IF Trim(currentQuery) = <<>>
    THEN UNCHANGED vars
    ELSE /\ Len(calls) < MaxInFlight
         /\ isLoading' = TRUE
         /\ selectedCharacteristics' = {}
         /\ showChat' = TRUE
         /\ showCharacteristics' = TRUE
         /\ showReport' = FALSE
         /\ messages' = addMessage(addMessage(<<>>, UserMessage(currentQuery)),
                                   AssistantMessage(AnalyzingMessage))
         /\ calls' = Append(calls, Call("auto-select",
                                        Request("POST", QStr(currentQuery), QNoArray)))
         /\ UNCHANGED <<currentQuery, reportContent, apiKey, buildVars>>

\* the submit button: onClick={handleQuerySubmit} disabled={isLoading}
SubmitClick ==
    /\ NoneSettled
    /\ ~showChat
    /\ ~isLoading
    /\ handleQuerySubmit

\* the query input: onKeyPress Enter && handleQuerySubmit()
QueryEnter ==
    /\ NoneSettled
    /\ ~showChat
    /\ handleQuerySubmit

\* the network fails between the page and the API: fetch() rejects
FetchRejects(i) ==
    /\ NoneSettled
    /\ calls[i].stage = "sent"
    /\ calls' = [calls EXCEPT ![i].stage = "rejected"]
    /\ UNCHANGED <<uiVars, apiKey, buildVars>>

\* what the upstream endpoint may do with the call of the auto-select handler
SelectorUpstreams ==
    {TransportFailure, UpstreamStatus(429), UpstreamChoices(<<>>)}
        \cup { UpstreamChoices(<<Str(t)>>) : t \in SelectorTexts }

\* what the upstream endpoint may do with the call of the generate-report handler
ReportUpstreams ==
    {TransportFailure, UpstreamStatus(429), UpstreamChoices(<<>>)}
        \cup { UpstreamChoices(<<Str(t)>>) : t \in ReportTexts }

Served(call, up, res) ==
    [call EXCEPT !.stage = "responded",
                 !.upstream = IF res.upstreamCalls = 0 THEN NoUpstream ELSE up,
                 !.res = res]

\* the server runs api/auto-select.js on a request of the session
AutoSelectServe(i) ==
    /\ NoneSettled
    /\ calls[i].stage = "sent"
    /\ calls[i].kind = "auto-select"
    /\ \E up \in SelectorUpstreams :
          calls' = [calls EXCEPT
                      ![i] = Served(@, up, AutoSelectHandler(calls[i].request, apiKey, up))]
    /\ UNCHANGED <<uiVars, apiKey, buildVars>>

\* the server runs api/generate-report.js on a request of the session
GenerateReportServe(i) ==
    /\ NoneSettled
    /\ calls[i].stage = "sent"
    /\ calls[i].kind = "generate-report"
    /\ \E up \in ReportUpstreams :
          calls' = [calls EXCEPT
                      ![i] = Served(@, up, GenerateReportHandler(calls[i].request, apiKey, up))]
    /\ UNCHANGED <<uiVars, apiKey, buildVars>>

\* a mutation of autoSelectOutcome: the try has no catch
autoSelectOutcomeNoCatch(call) ==
    IF call.stage = "responded" /\ Ok(call.res.status)
    THEN LET applied == applyAutoSelections(call.res.body) IN
         IF applied.threw
         THEN [completed |-> FALSE, applied |-> FALSE, selection |-> {},
               message |-> UnavailableMessage]
         ELSE [completed |-> TRUE, applied |-> TRUE, selection |-> applied.selection,
               message |-> AnalyzedMessage]
    ELSE [completed |-> call.stage = "responded", applied |-> FALSE, selection |-> {},
          message |-> UnavailableMessage]

\* the try/catch of handleQuerySubmit on a settled fetch: whether an exception
\* escapes it (completed = FALSE), whether a selection is stored, and the message
autoSelectOutcome(call) ==
    IF call.stage = "responded" /\ Ok(call.res.status)
    THEN LET applied == applyAutoSelections(call.res.body) IN
         IF applied.threw
         THEN [completed |-> TRUE, applied |-> FALSE, selection |-> {},
               message |-> UnavailableMessage]
         ELSE [completed |-> TRUE, applied |-> TRUE, selection |-> applied.selection,
               message |-> AnalyzedMessage]
    ELSE [completed |-> TRUE, applied |-> FALSE, selection |-> {},
          message |-> UnavailableMessage]

\* a mutation of handleQuerySubmitResume: setIsLoading(false) is the last statement
\* of the success branch only
handleQuerySubmitResumeStillLoading(i) ==
    /\ calls[i].kind = "auto-select"
    /\ calls[i].stage \in {"responded", "rejected"}
    /\ LET outcome == autoSelectOutcome(calls[i]) IN
       /\ selectedCharacteristics' =
             IF outcome.applied THEN outcome.selection ELSE selectedCharacteristics
       /\ messages' =
             IF outcome.completed
             THEN updateLastMessage(messages, outcome.message)
             ELSE messages
       /\ isLoading' = IF outcome.applied THEN FALSE ELSE isLoading
    /\ calls' = RemoveAt(calls, i)
    /\ UNCHANGED <<currentQuery, showChat, showCharacteristics, showReport,
                   reportContent, apiKey, buildVars>>

\* handleQuerySubmit, from its await on: the try body, the catch, setIsLoading(false)
handleQuerySubmitResume(i) ==
    /\ calls[i].kind = "auto-select"
    /\ calls[i].stage \in {"responded", "rejected"}
    /\ LET outcome == autoSelectOutcome(calls[i]) IN
       /\ selectedCharacteristics' =
             IF outcome.applied THEN outcome.selection ELSE selectedCharacteristics
       /\ messages' =
             IF outcome.completed
             THEN updateLastMessage(messages, outcome.message)
             ELSE messages
       /\ isLoading' = IF outcome.completed THEN FALSE ELSE isLoading
    /\ calls' = RemoveAt(calls, i)
    /\ UNCHANGED <<currentQuery, showChat, showCharacteristics, showReport,
                   reportContent, apiKey, buildVars>>

\* a mutation of newSelected: the value is added and never deleted
newSelectedAddOnly(selection, value) == selection \cup {value}

\* toggleCharacteristic: the copy of the Set after has/delete/add
newSelected(selection, value) ==
    IF value \in selection THEN selection \ {value} ELSE selection \cup {value}

\* toggleCharacteristic(value), the onClick of a rendered characteristic item
toggleCharacteristic(value) ==
    /\ NoneSettled
    /\ showCharacteristics
    /\ ~showReport
    /\ selectedCharacteristics' = newSelected(selectedCharacteristics, value)
    /\ UNCHANGED <<currentQuery, showChat, showCharacteristics, showReport, messages,
                   reportContent, isLoading, calls, apiKey, buildVars>>

\* a mutation of generateReport: the selection is not checked
generateReportAnySelection ==
    /\ NoneSettled
    /\ showCharacteristics
    /\ ~showReport
    /\ ~isLoading
    /\ Len(calls) < MaxInFlight
    /\ isLoading' = TRUE
    /\ calls' = Append(calls, Call("generate-report",
                         Request("POST", QStr(currentQuery),
                                 QArray(selectedCharacteristics))))
    /\ UNCHANGED <<currentQuery, selectedCharacteristics, showChat,
                   showCharacteristics, showReport, messages, reportContent,
                   apiKey, buildVars>>

\* generateReport, up to its await; the button is
\* disabled={selectedCharacteristics.size === 0 || isLoading}
generateReport ==
    /\ NoneSettled
    /\ showCharacteristics
    /\ ~showReport
    /\ ~(selectedCharacteristics = {} \/ isLoading)
    /\ IF selectedCharacteristics = {}
       THEN UNCHANGED vars
       ELSE /\ Len(calls) < MaxInFlight
            /\ isLoading' = TRUE
            /\ calls' = Append(calls, Call("generate-report",
                                 Request("POST", QStr(currentQuery),
                                         QArray(selectedCharacteristics))))
            /\ UNCHANGED <<currentQuery, selectedCharacteristics, showChat,
                           showCharacteristics, showReport, messages, reportContent,
                           apiKey, buildVars>>

\* a mutation of reportOutcome: a failed request shows the error of the response
reportOutcomeShowsError(call) ==
    IF call.stage = "responded" THEN
        IF Ok(call.res.status) THEN call.res.body.report ELSE call.res.body.error
    ELSE Str(fallbackReport)

\* the try/catch of generateReport on a settled fetch: the report content it stores
reportOutcome(call) ==
    IF call.stage = "responded" /\ Ok(call.res.status)
    THEN call.res.body.report
    ELSE Str(fallbackReport)

\* a mutation of generateReportResume: a failed request is sent again
generateReportResumeRetrying(i) ==
    /\ calls[i].kind = "generate-report"
    /\ calls[i].stage \in {"responded", "rejected"}
    /\ reportContent' = reportOutcome(calls[i])
    /\ showReport' = TRUE
    /\ isLoading' = FALSE
    /\ calls' = IF calls[i].stage = "responded" /\ Ok(calls[i].res.status)
                THEN RemoveAt(calls, i)
                ELSE Append(RemoveAt(calls, i), Call("generate-report", calls[i].request))
    /\ UNCHANGED <<currentQuery, selectedCharacteristics, showChat, showCharacteristics,
                   messages, apiKey, buildVars>>

\* generateReport, from its await on
generateReportResume(i) ==
    /\ calls[i].kind = "generate-report"
    /\ calls[i].stage \in {"responded", "rejected"}
    /\ reportContent' = reportOutcome(calls[i])
    /\ showReport' = TRUE
    /\ isLoading' = FALSE
    /\ calls' = RemoveAt(calls, i)
    /\ UNCHANGED <<currentQuery, selectedCharacteristics, showChat, showCharacteristics,
                   messages, apiKey, buildVars>>

\* the "Back to Characteristics" button of the report view
BackToCharacteristics ==
    /\ NoneSettled
    /\ showCharacteristics
    /\ showReport
    /\ showReport' = FALSE
    /\ UNCHANGED <<currentQuery, selectedCharacteristics, showChat, showCharacteristics,
                   messages, reportContent, isLoading, calls, apiKey, buildVars>>

\* goBackToMain, the onClick of the header logo
goBackToMain ==
    /\ NoneSettled
    /\ showChat' = FALSE
    /\ showCharacteristics' = FALSE
    /\ showReport' = FALSE
    /\ currentQuery' = <<>>
    /\ messages' = <<>>
    /\ selectedCharacteristics' = {}
    /\ UNCHANGED <<reportContent, isLoading, calls, apiKey, buildVars>>

Next ==
    \/ \E value \in Queries : SetCurrentQuery(value)
    \/ SubmitClick
    \/ QueryEnter
    \/ \E i \in 1..Len(calls) : FetchRejects(i)
    \/ \E i \in 1..Len(calls) : AutoSelectServe(i)
    \/ \E i \in 1..Len(calls) : GenerateReportServe(i)
    \/ \E i \in 1..Len(calls) : handleQuerySubmitResume(i)
    \/ \E value \in ToggleLabels : toggleCharacteristic(value)
    \/ generateReport
    \/ \E i \in 1..Len(calls) : generateReportResume(i)
    \/ BackToCharacteristics
    \/ goBackToMain

Spec == Init /\ [][Next]_vars

----
\* Any HTTP client of the two endpoints

\* req.method
ApiMethods == {"GET", "OPTIONS", "POST"}

\* req.body.newsContent
ApiNewsContents == {QUndefined, QStr(<<>>), QStr(<<" ", "b", " ">>)}

\* req.body.selectedTraits
ApiSelectedTraits == {QNoArray, QNotArray, QArray({}), QArray({"male", "crypto"})}

\* a client sends one request to an endpoint; `calls` holds it until it is answered
ApiRequest(kind, req) ==
    /\ calls = <<>>
    /\ calls' = <<Call(kind, req)>>
    /\ UNCHANGED <<uiVars, apiKey, buildVars>>

\* the client receives the answer
ApiReceive ==
    /\ Len(calls) = 1
    /\ calls[1].stage = "responded"
    /\ calls' = <<>>
    /\ UNCHANGED <<uiVars, apiKey, buildVars>>

NextApi ==
    \/ \E kind \in {"auto-select", "generate-report"}, method \in ApiMethods,
          newsContent \in ApiNewsContents, selectedTraits \in ApiSelectedTraits :
            ApiRequest(kind, Request(method, newsContent, selectedTraits))
    \/ \E i \in 1..Len(calls) : AutoSelectServe(i)
    \/ \E i \in 1..Len(calls) : GenerateReportServe(i)
    \/ ApiReceive

SpecApi == Init /\ [][NextApi]_vars

----
\* The build script

\* dist before the script runs: absent, empty, or left by a build with another key
DistStates == { <<FALSE, NoFile>>, <<TRUE, NoFile>>, <<TRUE, File(<<Markup, "sk-old">>)>> }

\* `node build.js` starts: the template is on disk, dist may be left from a build
InitBuild ==
    /\ currentQuery = <<>>
    /\ selectedCharacteristics = {}
    /\ showChat = FALSE
    /\ showCharacteristics = FALSE
    /\ showReport = FALSE
    /\ messages = <<>>
    /\ reportContent = Str("")
    /\ isLoading = FALSE
    /\ calls = <<>>
    /\ apiKey \in Keys
    /\ htmlContent \in Templates
    /\ processedContent = <<>>
    /\ \E dist \in DistStates : distDir = dist[1] /\ distIndex = dist[2]
    /\ buildPc = "check"
    /\ exitCode = -1

\* a mutation of buildCheck: the key is not checked
buildCheckAnyKey ==
    /\ buildPc = "check"
    /\ processedContent' = Replace(htmlContent, Placeholder, apiKey)
    /\ buildPc' = "mkdir"
    /\ UNCHANGED <<htmlContent, distDir, distIndex, exitCode>>
    /\ UNCHANGED <<uiVars, calls, apiKey>>

\* build.js up to the replace: process.exit(1) without a key
buildCheck ==
    /\ buildPc = "check"
    /\ IF apiKey = ""
       THEN /\ exitCode' = 1
            /\ buildPc' = "exited"
            /\ UNCHANGED <<htmlContent, processedContent, distDir, distIndex>>
       ELSE /\ processedContent' = Replace(htmlContent, Placeholder, apiKey)
            /\ buildPc' = "mkdir"
            /\ UNCHANGED <<htmlContent, distDir, distIndex, exitCode>>
    /\ UNCHANGED <<uiVars, calls, apiKey>>

\* if (!fs.existsSync(distDir)) fs.mkdirSync(distDir, { recursive: true })
buildMkdir ==
    /\ buildPc = "mkdir"
    /\ distDir' = TRUE
    /\ buildPc' = "write"
    /\ UNCHANGED <<htmlContent, processedContent, distIndex, exitCode>>
    /\ UNCHANGED <<uiVars, calls, apiKey>>

\* fs.writeFileSync(dist/index.html, processedContent), and the script ends
buildWrite ==
    /\ buildPc = "write"
    /\ distIndex' = File(processedContent)
    /\ exitCode' = 0
    /\ buildPc' = "exited"
    /\ UNCHANGED <<htmlContent, processedContent, distDir>>
    /\ UNCHANGED <<uiVars, calls, apiKey>>

NextBuild ==
    \/ buildCheck
    \/ buildMkdir
    \/ buildWrite

SpecBuild == InitBuild /\ [][NextBuild]_vars

\* a deployment: the build script runs and the endpoints serve requests
NextDeploy ==
    \/ NextBuild
    \/ NextApi

SpecDeploy == InitBuild /\ [][NextDeploy]_vars

----
\* The session when every fetch() settles

\* the fetch of call i settles: it rejects, or a handler answers it
Settle(i) == FetchRejects(i) \/ AutoSelectServe(i) \/ GenerateReportServe(i)

\* the continuation after the await of call i
Resume(i) == handleQuerySubmitResume(i) \/ generateReportResume(i)

\* Every fetch in flight settles, however many other requests are sent and settled
\* meanwhile, and the continuation of a settled fetch runs.
FairSpec ==
    /\ Spec
    /\ \A i \in 1..MaxInFlight : SF_vars(i <= Len(calls) /\ Settle(i))
    /\ \A i \in 1..MaxInFlight : WF_vars(i <= Len(calls) /\ Resume(i))

----
\* Properties

Indexes == 1..Len(calls)

IsSelector(i) == calls[i].kind = "auto-select"
IsReport(i) == calls[i].kind = "generate-report"

\* the continuation of call i runs in this step
Resumed(i) == calls[i].stage # "sent" /\ calls' = RemoveAt(calls, i)

\* the upstream call of the handler failed: transport error, non-success status,
\* or an empty completion list
UpstreamFailed(call) ==
    \/ call.upstream.kind = "transport"
    \/ call.upstream.kind = "response" /\ ~Ok(call.upstream.status)
    \/ call.upstream.kind = "response" /\ Ok(call.upstream.status)
          /\ Len(call.upstream.choices) = 0

\* the upstream call of the handler succeeded and carried a completion text
HasCompletion(call) ==
    /\ call.upstream.kind = "response"
    /\ Ok(call.upstream.status)
    /\ Len(call.upstream.choices) > 0

Field(doc, key) == Property(doc, key).value

\* the labels of the categories of a document that are lists
ListedLabels(doc) ==
    UNION { Range(Field(doc, key).items) :
              key \in { k \in Categories : Field(doc, k).kind = "array" } }

\* C1: every label of a suggestion answered by the auto-select handler belongs to
\* the option list of its own category.
C1_SuggestionWithinTaxonomy ==
    \A i \in Indexes :
        (IsSelector(i) /\ calls[i].stage = "responded" /\ Ok(calls[i].res.status))
            => \A key \in Categories :
                  Range(Field(calls[i].res.body, key).items) \subseteq Range(fixedOptions[key])

\* C2: every member of selectedCharacteristics is a label of the taxonomy.
C2_SelectionWithinTaxonomy == selectedCharacteristics \subseteq TaxonomyLabels

\* C3: the response of a selector request that was followed by a later query is
\* never applied: its continuation changes neither the selection nor the messages.
C3_StaleResponseNotApplied ==
    [][ \A i \in Indexes :
          (IsSelector(i) /\ Resumed(i) /\ \E j \in Indexes : j > i /\ IsSelector(j))
              => /\ selectedCharacteristics' = selectedCharacteristics
                 /\ messages' = messages ]_vars

\* C4: at most one pipeline request of the session is in flight at any time.
C4_SingleRequestInFlight == Len(calls) <= 1

\* C5: when the upstream call fails, the auto-select handler answers with the
\* fixed default suggestion.
C5_UpstreamFailureYieldsDefault ==
    \A i \in Indexes :
        (IsSelector(i) /\ calls[i].stage = "responded" /\ UpstreamFailed(calls[i]))
            => /\ calls[i].res.status = 200
               /\ calls[i].res.body = FallbackSelections

ReportFailed(call) ==
    \/ call.stage = "rejected"
    \/ call.stage = "responded" /\ ~Ok(call.res.status)

\* C6: when a report request fails (the fetch rejects, or the answer has a
\* non-success status), generateReport stores exactly the fallback report text and
\* shows the report view.
C6_FailedReportShowsFallback ==
    [][ \A i \in Indexes :
          (IsReport(i) /\ ReportFailed(calls[i]) /\ Resumed(i))
              => /\ reportContent' = Str(fallbackReport)
                 /\ showReport' ]_vars

C6_Witness ==
    /\ reportContent = Str(fallbackReport)
    /\ showReport
    /\ showCharacteristics
    /\ ~isLoading
    /\ apiKey # ""

\* C7: when the completion text is not parseable as an object (a syntax error, or
\* JSON of another shape), the auto-select handler answers with the fixed default
\* suggestion.
C7_UnexpectedShapeYieldsDefault ==
    \A i \in Indexes :
        (/\ IsSelector(i)
         /\ HasCompletion(calls[i])
         /\ LET parsed == JSONParse(calls[i].upstream.choices[1]) IN
                ~parsed.ok \/ parsed.value.kind # "object")
            => /\ calls[i].res.status = 200
               /\ calls[i].res.body = FallbackSelections

\* C8: whatever the completion text, the auto-select handler answers with status
\* 200, and the continuation of handleQuerySubmit is the next step of the session
\* and ends with isLoading false.
C8_SelectorNeverThrows ==
    [][ \A i \in Indexes :
          (IsSelector(i) /\ HasCompletion(calls[i]))
              => /\ calls[i].stage = "responded"
                 /\ calls[i].res.status = 200
                 /\ calls' = RemoveAt(calls, i)
                 /\ ~isLoading' ]_vars

C8_Witness ==
    \E i \in Indexes :
        /\ IsSelector(i)
        /\ HasCompletion(calls[i])
        /\ calls[i].upstream.choices[1] \in {Str(TextNull), Str(TextTruncated)}
        /\ calls[i].res.status = 200
        /\ isLoading

\* the document is an object that lacks exactly one category key and whose other
\* categories are lists
LacksOneKey(doc) ==
    /\ doc.kind = "object"
    /\ Cardinality({ k \in Categories : Field(doc, k).kind = "absent" }) = 1
    /\ \A k \in Categories : Field(doc, k).kind \in {"absent", "array"}

\* C9: when the selector result lacks one category key, the selection becomes the
\* labels of the categories that are present, and the assistant message is the one
\* of a successful analysis.
C9_MissingCategoryIsEmpty ==
    [][ \A i \in Indexes :
          (/\ IsSelector(i)
           /\ calls[i].stage = "responded"
           /\ Ok(calls[i].res.status)
           /\ LacksOneKey(calls[i].res.body)
           /\ Resumed(i))
              => /\ selectedCharacteristics' = ListedLabels(calls[i].res.body)
                 /\ messages' = updateLastMessage(messages, AnalyzedMessage) ]_vars

C9_Witness ==
    /\ selectedCharacteristics = {"24-30", "male", "technology"}
    /\ Len(messages) = 2
    /\ messages[2].content = AnalyzedMessage
    /\ ~isLoading
    /\ calls = <<>>

\* the document is an object with a category that is present but is not a list
HasMalformedCategory(doc) ==
    /\ doc.kind = "object"
    /\ \E k \in Categories : Field(doc, k).kind \in {"string", "number", "object"}

\* C10: a category that is present but malformed is treated as empty: the
\* selection becomes the labels of the categories that are lists.
C10_MalformedCategoryIsEmpty ==
    [][ \A i \in Indexes :
          (/\ IsSelector(i)
           /\ calls[i].stage = "responded"
           /\ Ok(calls[i].res.status)
           /\ HasMalformedCategory(calls[i].res.body)
           /\ Resumed(i))
              => selectedCharacteristics' = ListedLabels(calls[i].res.body) ]_vars

----
\* Failure handling of the two endpoints

Handler(kind, req, key, up) ==
    IF kind = "auto-select" THEN AutoSelectHandler(req, key, up)
    ELSE GenerateReportHandler(req, key, up)

IsResponded(i) == calls[i].stage = "responded"

\* a POST that carries the fields its endpoint requires
WellFormed(call) ==
    /\ call.request.method = "POST"
    /\ ~Falsy(call.request.newsContent)
    /\ call.kind = "generate-report" => call.request.selectedTraits.type = "array"

FailureModes == {"transport", "status", "empty", "credential"}

ConfiguredKey == CHOOSE k \in Keys : k # ""

\* the answer of the handler to the request of a call under a failure mode
FailureOutcome(call, mode) ==
    Handler(call.kind, call.request,
            IF mode = "credential" THEN "" ELSE ConfiguredKey,
            CASE mode = "transport" -> TransportFailure
              [] mode = "status" -> UpstreamStatus(429)
              [] mode = "empty" -> UpstreamChoices(<<>>)
              [] mode = "credential" -> NoUpstream)

\* the failure was caught and answered: status 500 and an error object
AnsweredAsFailure(res) ==
    /\ res.status = 500
    /\ res.body.kind = "object"
    /\ res.body.error.type = "string"

\* what a client of the endpoint sees of an answer
Seen(res) == <<res.status, res.body>>

\* C11 as stated: for every well-formed request, each of the four failure modes is
\* answered as a caught failure, and the answers to two different failure modes
\* differ in status or in error value.
C11_FailureAnswersDistinct ==
    \A i \in Indexes : IsResponded(i) /\ WellFormed(calls[i]) =>
        \A m1, m2 \in FailureModes :
            /\ AnsweredAsFailure(FailureOutcome(calls[i], m1))
            /\ m1 # m2 => Seen(FailureOutcome(calls[i], m1)) # Seen(FailureOutcome(calls[i], m2))

\* C11, amended: for every well-formed request each of the four failure modes is
\* caught and answered with status 500 and an error object; the answer to a missing
\* credential differs from the other three, which are one and the same answer and
\* differ only in the exception value the handler logs; and a call answered after a
\* failed upstream call carries that answer.
C11_FailuresCaught ==
    \A i \in Indexes :
        /\ WellFormed(calls[i]) =>
             LET transport == FailureOutcome(calls[i], "transport")
                 status == FailureOutcome(calls[i], "status")
                 empty == FailureOutcome(calls[i], "empty")
                 credential == FailureOutcome(calls[i], "credential") IN
             /\ AnsweredAsFailure(transport) /\ AnsweredAsFailure(status)
             /\ AnsweredAsFailure(empty) /\ AnsweredAsFailure(credential)
             /\ Seen(transport) = Seen(status)
             /\ Seen(status) = Seen(empty)
             /\ Seen(credential) # Seen(transport)
             /\ credential.logged = NoError
             /\ Cardinality({transport.logged, status.logged, empty.logged, NoError}) = 4
        /\ IsResponded(i) /\ UpstreamFailed(calls[i]) =>
             /\ AnsweredAsFailure(calls[i].res)
             /\ calls[i].res.logged = UpstreamError(calls[i].upstream)

\* an upstream call returned a success status and an empty completion list, and the
\* handler answered
C11_Witness ==
    \E i \in Indexes :
        /\ IsResponded(i)
        /\ WellFormed(calls[i])
        /\ calls[i].upstream = UpstreamChoices(<<>>)
        /\ calls[i].res.status = 500

\* C12 as stated: every request whose method is not POST is answered 405, with no
\* upstream call.
C12_NonPostIs405 ==
    \A i \in Indexes : IsResponded(i) /\ calls[i].request.method # "POST" =>
        /\ calls[i].res.status = 405
        /\ calls[i].res.upstreamCalls = 0

\* C12, amended: a request whose method is neither POST nor OPTIONS is answered 405
\* with the error "Method not allowed"; an OPTIONS request is answered 200 with an
\* empty body; neither makes an upstream call.
C12_NonPostRefused ==
    \A i \in Indexes : IsResponded(i) /\ calls[i].request.method # "POST" =>
        /\ calls[i].res.upstreamCalls = 0
        /\ calls[i].upstream = NoUpstream
        /\ IF calls[i].request.method = "OPTIONS"
           THEN calls[i].res.status = 200 /\ calls[i].res.body = NoBody
           ELSE calls[i].res.status = 405
                /\ calls[i].res.body = JError("Method not allowed")

\* a GET with all fields and the credential configured was answered 405
C12_Witness ==
    \E i \in Indexes :
        /\ IsResponded(i)
        /\ IsSelector(i)
        /\ calls[i].request.method = "GET"
        /\ ~Falsy(calls[i].request.newsContent)
        /\ apiKey # ""
        /\ calls[i].res.status = 405

\* the POST lacks a field its endpoint requires
LacksField(call) ==
    /\ call.request.method = "POST"
    /\ \/ Falsy(call.request.newsContent)
       \/ call.kind = "generate-report" /\ call.request.selectedTraits.type = "undefined"

\* C13: a POST that lacks a required field is answered 400 with an error object,
\* whether or not the credential is configured, and no upstream call is made.
C13_MissingFieldIs400 ==
    \A i \in Indexes : IsResponded(i) /\ LacksField(calls[i]) =>
        /\ calls[i].res.status = 400
        /\ calls[i].res.body.kind = "object"
        /\ calls[i].res.body.error.type = "string"
        /\ calls[i].res.upstreamCalls = 0
        /\ calls[i].upstream = NoUpstream

\* a report request without selectedTraits was answered 400 while the credential
\* was not configured
C13_Witness ==
    \E i \in Indexes :
        /\ IsResponded(i)
        /\ IsReport(i)
        /\ calls[i].request.method = "POST"
        /\ ~Falsy(calls[i].request.newsContent)
        /\ calls[i].request.selectedTraits.type = "undefined"
        /\ apiKey = ""
        /\ calls[i].res.status = 400

\* C14: a well-formed POST received while the credential is absent is answered 500
\* with an error object by both endpoints, with no upstream call.
C14_MissingCredentialIs500 ==
    \A i \in Indexes : IsResponded(i) /\ WellFormed(calls[i]) /\ apiKey = "" =>
        /\ calls[i].res.status = 500
        /\ calls[i].res.body = JError("OpenAI API key not configured")
        /\ calls[i].res.upstreamCalls = 0
        /\ calls[i].upstream = NoUpstream

\* a well-formed report request was answered 500 while the credential was absent
C14_Witness ==
    \E i \in Indexes :
        /\ IsResponded(i)
        /\ IsReport(i)
        /\ WellFormed(calls[i])
        /\ calls[i].request.selectedTraits.items # {}
        /\ apiKey = ""
        /\ calls[i].res.status = 500

----
\* Requests of the session

\* a handleQuerySubmit that got past its check of the query runs in this step
AcceptedQuery == NoneSettled /\ ~showChat /\ showChat'

\* a generateReport that got past its check of the selection runs in this step
AcceptedReport == NoneSettled /\ ~isLoading /\ isLoading' /\ showChat' = showChat

ReportCalls(cs) == Cardinality({ j \in 1..Len(cs) : cs[j].kind = "generate-report" })
SelectorCalls(cs) == Cardinality({ j \in 1..Len(cs) : cs[j].kind = "auto-select" })

\* C15: a handler invocation makes at most one upstream call; an accepted
\* handleQuerySubmit or generateReport sends exactly one request; and the
\* continuation of a settled request removes it and sends no other.
C15_NoRetry ==
    [][ /\ \A i \in Indexes : calls[i].res.upstreamCalls <= 1
        /\ \A j \in 1..Len(calls') : calls'[j].res.upstreamCalls <= 1
        /\ Len(calls') <= Len(calls) + 1
        /\ AcceptedQuery =>
             calls' = Append(calls, Call("auto-select",
                                Request("POST", QStr(currentQuery), QNoArray)))
        /\ AcceptedReport =>
             calls' = Append(calls, Call("generate-report",
                                Request("POST", QStr(currentQuery),
                                        QArray(selectedCharacteristics))))
        /\ ~NoneSettled =>
             \E i \in Indexes : calls[i].stage # "sent" /\ calls' = RemoveAt(calls, i)
      ]_vars

\* a report request whose handler made its one upstream call, which failed, has
\* been answered and no second request of the session is in flight
C15_Witness ==
    /\ Len(calls) = 1
    /\ IsReport(1)
    /\ IsResponded(1)
    /\ UpstreamFailed(calls[1])
    /\ calls[1].res.upstreamCalls = 1

\* C16: while the selection is empty no report request is sent, and reportContent
\* stays as it is and the report view is not opened by any event of the page;
\* every report request of the session carries at least one trait.
C16_NoEmptyReportRequest ==
    [][ /\ \A j \in 1..Len(calls') : calls'[j].kind = "generate-report" =>
              /\ calls'[j].request.selectedTraits.type = "array"
              /\ calls'[j].request.selectedTraits.items # {}
        /\ NoneSettled /\ selectedCharacteristics = {} =>
              /\ ReportCalls(calls') = ReportCalls(calls)
              /\ reportContent' = reportContent
              /\ showReport' => showReport
              /\ isLoading' # isLoading => AcceptedQuery
      ]_vars

\* the panel is shown with an empty selection and the page is idle, after a report
\* request of the session was sent with a trait
C16_Witness ==
    /\ showCharacteristics
    /\ ~showReport
    /\ selectedCharacteristics = {}
    /\ \E i \in Indexes : IsReport(i) /\ calls[i].request.selectedTraits.items # {}

\* C17: while the query is empty or whitespace only no request is sent by
\* handleQuerySubmit, and every report request carries a non-blank text, the text of
\* the most recently submitted query.
C17_BlankQueryRejected ==
    [][ /\ NoneSettled /\ Trim(currentQuery) = <<>> =>
              /\ SelectorCalls(calls') = SelectorCalls(calls)
              /\ ~AcceptedQuery
              /\ messages' \in {messages, <<>>}
        /\ \A j \in 1..Len(calls') : calls'[j].kind = "generate-report" =>
              Trim(calls'[j].request.newsContent.chars) # <<>>
        /\ AcceptedReport =>
              /\ Len(messages) > 0
              /\ messages[1].sender = "user"
              /\ messages[1].content = currentQuery
      ]_vars

\* the query typed is whitespace only, and a report request carrying the submitted
\* text is in flight
C17_Witness ==
    /\ currentQuery # <<>>
    /\ Trim(currentQuery) = <<>>
    /\ \E i \in Indexes : IsReport(i) /\ Trim(calls[i].request.newsContent.chars) # <<>>

\* C18: a report request that carries a non-empty selection is not answered with a
\* client-error status.
C18_SelectionAccepted ==
    \A i \in Indexes :
        IsReport(i) /\ IsResponded(i) /\ calls[i].request.selectedTraits.items # {} =>
            ~(calls[i].res.status >= 400 /\ calls[i].res.status <= 499)

\* the selection stored from a selector response, with a label outside the
\* taxonomy, was sent as it is and the report handler answered 200
C18_Witness ==
    \E i \in Indexes :
        /\ IsReport(i)
        /\ IsResponded(i)
        /\ calls[i].request.selectedTraits.items =
              applyAutoSelections(JSONParse(Str(TextUnknownLabel)).value).selection
        /\ calls[i].res.status = 200

----
\* The taxonomy

\* the key of the presentation layer for a category of the handler
ClientKey(category) == IF category = "personality_traits" THEN "personality" ELSE category

\* the labels a document lists under a category
LabelsOf(doc, category) ==
    CASE category = "ages" -> Range(doc.ages.items)
      [] category = "genders" -> Range(doc.genders.items)
      [] category = "personality_traits" -> Range(doc.personality_traits.items)
      [] category = "interests" -> Range(doc.interests.items)

\* C19: for each of the four categories the labels offered for toggling are the
\* options of the prompt, and each label of the default suggestion, as the handler
\* sends it when the completion does not parse, is one of both.
C19_TaxonomySame ==
    /\ \A c \in Categories :
          Range(characteristics[ClientKey(c)]) = Range(fixedOptions[c])
    /\ \A i \in Indexes :
          IsSelector(i) /\ IsResponded(i) /\ HasCompletion(calls[i])
             /\ ~JSONParse(calls[i].upstream.choices[1]).ok =>
                \A c \in Categories :
                    /\ LabelsOf(calls[i].res.body, c) # {}
                    /\ LabelsOf(calls[i].res.body, c) \subseteq Range(fixedOptions[c])
                    /\ LabelsOf(calls[i].res.body, c)
                          \subseteq Range(characteristics[ClientKey(c)])

\* the handler sent the default suggestion and the panel offers the labels
C19_Witness ==
    /\ showCharacteristics
    /\ \E i \in Indexes :
          /\ IsSelector(i)
          /\ IsResponded(i)
          /\ calls[i].res.body = FallbackSelections

----
\* Progress

\* the last message is the assistant's, updated after the analysis
MessageUpdated ==
    /\ Len(messages) > 0
    /\ messages[Len(messages)].sender = "assistant"
    /\ messages[Len(messages)].content \in {AnalyzedMessage, UnavailableMessage}

\* C20 as stated: every accepted handleQuerySubmit is followed by a state with
\* isLoading false that shows the panel with the assistant message updated, and
\* every accepted generateReport by one that shows the report view.
C20_ResultAlwaysShown ==
    /\ (\E i \in Indexes : IsSelector(i))
          ~> (~isLoading /\ showCharacteristics /\ MessageUpdated)
    /\ (\E i \in Indexes : IsReport(i))
          ~> (~isLoading /\ showCharacteristics /\ showReport)

\* C20, amended: isLoading is true only while a request is in flight, and every
\* state with isLoading true is followed by one with isLoading false; the
\* continuation of a request shows its result when the panel is still shown (the
\* assistant message updated, respectively the report view), and shows nothing
\* when the user went back to the main screen meanwhile.
C20_NeverLeftLoading ==
    /\ [](isLoading => calls # <<>>)
    /\ isLoading ~> ~isLoading
    /\ [][ \A i \in Indexes : Resumed(i) =>
              /\ ~isLoading'
              /\ showCharacteristics' = showCharacteristics
              /\ IsSelector(i) /\ Len(messages) > 0
                    /\ messages[Len(messages)].sender = "assistant" => MessageUpdated'
              /\ IsSelector(i) /\ messages = <<>> => messages' = <<>>
              /\ IsReport(i) => showReport'
       ]_vars

\* after a request that failed, the page is idle with the panel shown and the
\* assistant message saying the analysis is unavailable
C20_Witness ==
    /\ calls = <<>>
    /\ ~isLoading
    /\ showCharacteristics
    /\ Len(messages) > 0
    /\ messages[Len(messages)].sender = "assistant"
    /\ messages[Len(messages)].content = UnavailableMessage

----
\* What the user is shown

\* C21: a report shown after a report request that was answered with a success
\* status is a non-empty string.
C21_SuccessfulReportNonEmpty ==
    [][ \A i \in Indexes :
          IsReport(i) /\ Resumed(i) /\ IsResponded(i) /\ Ok(calls[i].res.status)
             /\ showCharacteristics' /\ showReport' =>
                /\ reportContent'.type = "string"
                /\ reportContent'.text # "" ]_vars

\* C22: every response of either endpoint carries Access-Control-Allow-Origin: *.
C22_EveryResponseAllowsAnyOrigin ==
    \A i \in Indexes : IsResponded(i) =>
        /\ calls[i].res.status \in {200, 400, 405, 500}
        /\ calls[i].res.allowOrigin = "*"

\* the auto-select endpoint answered an OPTIONS request, with the header
C22_Witness ==
    \E i \in Indexes :
        /\ IsResponded(i)
        /\ IsSelector(i)
        /\ calls[i].request.method = "OPTIONS"
        /\ calls[i].res.allowOrigin = "*"

\* the selection of the response came from the model: the upstream call succeeded
\* and its completion text parsed
ModelProduced(call) ==
    /\ call.stage = "responded"
    /\ Ok(call.res.status)
    /\ HasCompletion(call)
    /\ JSONParse(call.upstream.choices[1]).ok

\* C23: the continuation of a selector request sets the assistant message to the
\* "analyzed" text only when the selection came from the model, and to the
\* "unavailable" text otherwise.
C23_DefaultIsAnnounced ==
    [][ \A i \in Indexes :
          IsSelector(i) /\ Resumed(i) /\ Len(messages) > 0
             /\ messages[Len(messages)].sender = "assistant" =>
                /\ messages'[Len(messages')].content
                      \in {AnalyzedMessage, UnavailableMessage}
                /\ ~ModelProduced(calls[i]) =>
                      messages'[Len(messages')].content = UnavailableMessage
      ]_vars

----
\* One analysis at a time

\* the message list holds the user message of the query and one assistant message
MessagesOfOneQuery ==
    /\ Len(messages) \in {0, 2}
    /\ Len(messages) = 2 =>
          /\ messages[1] = UserMessage(currentQuery)
          /\ messages[2].sender = "assistant"

\* C24: after an accepted handleQuerySubmit the message list holds that query's
\* user message and a single assistant message, and the answer to the request of
\* an earlier analysis leaves the selection and the messages of the new one alone.
C24_NewAnalysisClearsPrevious ==
    [][ /\ MessagesOfOneQuery'
        /\ AcceptedQuery =>
              /\ selectedCharacteristics' = {}
              /\ messages' = <<UserMessage(currentQuery),
                               AssistantMessage(AnalyzingMessage)>>
        /\ \A i \in Indexes :
              IsSelector(i) /\ Resumed(i) /\ (\E j \in Indexes : j > i /\ IsSelector(j)) =>
                  /\ selectedCharacteristics' = selectedCharacteristics
                  /\ messages' = messages
      ]_vars

\* the main page as a new session shows it
Fresh ==
    /\ currentQuery = <<>>
    /\ messages = <<>>
    /\ selectedCharacteristics = {}
    /\ ~showChat
    /\ ~showCharacteristics
    /\ ~showReport

\* C25: a click on the logo leaves the fresh main page, and the continuation of a
\* request that was in flight at the click changes neither the selection, nor the
\* messages, nor showReport.
C25_FreshStatePersists ==
    [][ /\ goBackToMain => Fresh'
        /\ Fresh /\ (\E i \in Indexes : Resumed(i)) =>
              /\ selectedCharacteristics' = selectedCharacteristics
              /\ messages' = messages
              /\ showReport' = showReport
      ]_vars

\* C27: isLoading is true exactly when a request of the session is outstanding.
C27_LoadingIffInFlight == isLoading <=> (calls # <<>>)

\* C28: when the continuation of a report request opens the report view, the
\* query and the selection shown next to the report are those of the request.
C28_ReportDescribesItsRequest ==
    [][ \A i \in Indexes :
          IsReport(i) /\ Resumed(i) /\ showCharacteristics' /\ showReport' =>
              /\ calls[i].request.newsContent.chars = currentQuery'
              /\ calls[i].request.selectedTraits.items = selectedCharacteristics'
      ]_vars

----
\* The credential and the responses

\* values of OPENAI_API_KEY that two deployments may differ in
ConfiguredKeys == {"sk-A", "sk-B"}

\* the error strings the handlers send
FixedErrors ==
    { "Method not allowed", "News content is required",
      "News content and selected traits are required", "OpenAI API key not configured",
      "Failed to analyze content", "Failed to generate analysis report" }

\* the response to a request is the one the handler gives under any other
\* configured credential and the same upstream behaviour, and the error of a
\* response is one of the fixed error strings
EndpointsKeepKey ==
    \A i \in Indexes : IsResponded(i) =>
        /\ apiKey # "" =>
              \A key \in ConfiguredKeys :
                  Handler(calls[i].kind, calls[i].request, key, calls[i].upstream)
                      = calls[i].res
        /\ calls[i].res.body.error.type = "string" =>
              calls[i].res.body.error.text \in FixedErrors
        /\ calls[i].res.body.error.type = "undefined" => Ok(calls[i].res.status)

\* dist/index.html, the page the browser loads, holds the credential
KeyInBuiltPage == distIndex.exists /\ apiKey # "" /\ apiKey \in Range(distIndex.content)

----
\* The selection

\* the only label whose membership differs between two selections
FlipsOnly(before, after, value) ==
    /\ (value \in after) = (value \notin before)
    /\ after \ {value} = before \ {value}

\* C29: toggleCharacteristic(v) flips the membership of v and of no other label,
\* changes no other state variable, and applied twice with the same label gives
\* back the selection it started from.
C29_ToggleIsInvolution ==
    [][ /\ (NoneSettled /\ showCharacteristics /\ showCharacteristics'
              /\ selectedCharacteristics' # selectedCharacteristics) =>
                /\ \E value \in TaxonomyLabels :
                      FlipsOnly(selectedCharacteristics, selectedCharacteristics', value)
                /\ UNCHANGED <<currentQuery, showChat, showCharacteristics, showReport,
                               messages, reportContent, isLoading, calls, apiKey>>
        /\ showCharacteristics =>
              \A value \in ToggleLabels \cup selectedCharacteristics :
                  LET once == newSelected(selectedCharacteristics, value) IN
                  /\ FlipsOnly(selectedCharacteristics, once, value)
                  /\ newSelected(once, value) = selectedCharacteristics
      ]_vars

\* the selector suggested nothing and the user has selected a label
C29_Witness ==
    /\ showCharacteristics
    /\ ~showReport
    /\ calls = <<>>
    /\ selectedCharacteristics = ToggleLabels
    /\ Len(messages) = 2
    /\ messages[2].content = UnavailableMessage

----
\* The build

\* replace of every occurrence
RECURSIVE ReplaceEvery(_, _, _)
ReplaceEvery(text, pattern, replacement) ==
    IF text = <<>> THEN <<>>
    ELSE <<IF Head(text) = pattern THEN replacement ELSE Head(text)>>
            \o ReplaceEvery(Tail(text), pattern, replacement)

\* the script ends in this step
BuildExits == buildPc # "exited" /\ buildPc' = "exited"

\* without the key the script exits with code 1 and leaves dist as it is
FailsClosed ==
    apiKey = "" =>
        /\ distDir' = distDir
        /\ distIndex' = distIndex
        /\ BuildExits => exitCode' = 1

IsFirstPlaceholder(text, k) ==
    /\ text[k] = Placeholder
    /\ \A j \in 1..(k - 1) : text[j] # Placeholder

====
